---- MODULE Spec2Model ----
(***************************************************************************)
(* Model of the two view modules of django-restapi-jwt:                    *)
(*   myapp/views.py : PostViewSet (ModelViewSet over Post, owner scoped)   *)
(*   users/views.py : RegisterView (CreateAPIView), UserProfileView        *)
(* The store is the database (users, posts); one action is one HTTP        *)
(* request handled from dispatch to response.                              *)
(***************************************************************************)
EXTENDS Naturals, FiniteSets, TLC

\* ---------------------------------------------------------------- bounds
MaxPostId == 2

\* request.user of a request without credentials (AnonymousUser, id None)
Anon == 0
\* an absent primary key: no "user" key in a request body or in save's kwargs
NoId == 0
\* an absent string value
None == "None"

\* The usernames tried; usernames are unique, so they bound the User table.
Usernames == {"u1", "u2"}
UserIds == 1..Cardinality(Usernames)
PostIds == 1..MaxPostId
Contents == {"c1", "c2"}

\* ----------------------------------------------------------------- state
VARIABLES
    users,        \* User table: id -> [username, email, first_name, last_name]
    posts,        \* Post table: id -> [user, content]
    nextPostId,   \* the Post table's auto-increment counter
    userReadOnly, \* PostSerializer configuration: is Post.user a read-only field
    req,          \* the request being answered: [op, caller, pk, body]; body holds
                  \* the "user" value of a post body, or a registration body
    resp,         \* its response: [status, data], data the set of returned objects
    getRan        \* did UserProfileView.get run while answering req

vars == <<users, posts, nextPostId, userReadOnly, req, resp, getRan>>

\* ------------------------------------------------------------ permissions
IsAuthenticated == "IsAuthenticated"
AllowAny == "AllowAny"

PostViewSet_permission_classes_open == AllowAny

PostViewSet_permission_classes == IsAuthenticated

RegisterView_permission_classes_closed == IsAuthenticated

RegisterView_permission_classes == AllowAny

UserProfileView_permission_classes_open == AllowAny

UserProfileView_permission_classes == IsAuthenticated

\* APIView.check_permissions: AllowAny lets everybody through, IsAuthenticated
\* lets through a request whose request.user is an authenticated user.
check_permissions(perm, caller) ==
    \/ perm = AllowAny
    \/ perm = IsAuthenticated /\ caller # Anon

Callers == DOMAIN users \cup {Anon}

Response(status, data) == [status |-> status, data |-> data]

NotAuthenticated == Response("NotAuthenticated", {})
NotFound == Response("404_NOT_FOUND", {})
BadRequest == Response("400_BAD_REQUEST", {})

\* ----------------------------------------------------------- PostViewSet
get_queryset_unscoped(caller) == DOMAIN posts

get_queryset(caller) == {p \in DOMAIN posts : posts[p].user = caller}

perform_create_no_owner(caller) == [user |-> NoId]

\* The keyword arguments perform_create hands to serializer.save.
perform_create(caller) == [user |-> caller]

\* perform_update is the framework default: serializer.save() without arguments.
perform_update == [user |-> NoId]

\* PostSerializer: representation, validation, validated data and save.
PostSerializer_data(p) == [id |-> p, user |-> posts[p].user, content |-> posts[p].content]

PostSerializer_is_valid(body, partial) ==
    /\ partial \/ body.content # None
    /\ userReadOnly \/ body.user = NoId \/ body.user \in DOMAIN users

PostSerializer_validated_data(body) ==
    [content |-> body.content, user |-> IF userReadOnly THEN NoId ELSE body.user]

\* serializer.save(**kwargs): the keyword arguments override the validated data;
\* a field absent from both keeps the instance's value.
PostSerializer_save(instance, validated, kwargs) ==
    LET owner == IF kwargs.user # NoId THEN kwargs.user ELSE validated.user
    IN  [user |-> IF owner # NoId THEN owner ELSE instance.user,
         content |-> IF validated.content # None THEN validated.content
                     ELSE instance.content]

NoInstance == [user |-> NoId, content |-> None]

\* A request body carries a "user" value or none, and a "content" value or none.
BodyOwners == UserIds \cup {NoId}
BodyContents == Contents \cup {None}

Request(op, caller, pk, body) == [op |-> op, caller |-> caller, pk |-> pk, body |-> body]
NoBody == [x \in {} |-> None]

PostList ==
    \E caller \in Callers :
        /\ req' = Request("list", caller, NoId, NoBody)
        /\ resp' = IF ~check_permissions(PostViewSet_permission_classes, caller)
                   THEN NotAuthenticated
                   ELSE Response("200_OK",
                                 {PostSerializer_data(p) : p \in get_queryset(caller)})
        /\ getRan' = FALSE
        /\ UNCHANGED <<users, posts, nextPostId, userReadOnly>>

\* The body's "content" is drawn where the serializer first reads it.
PostCreate ==
    \E caller \in Callers, owner \in BodyOwners :
        /\ nextPostId <= MaxPostId
        /\ req' = Request("create", caller, NoId, [user |-> owner])
        /\ IF ~check_permissions(PostViewSet_permission_classes, caller)
           THEN /\ resp' = NotAuthenticated
                /\ UNCHANGED <<posts, nextPostId>>
           ELSE \E content \in BodyContents :
                LET body == [user |-> owner, content |-> content]
                    row == PostSerializer_save(NoInstance,
                                               PostSerializer_validated_data(body),
                                               perform_create(caller))
                IN  IF ~PostSerializer_is_valid(body, FALSE)
                    THEN /\ resp' = BadRequest
                         /\ UNCHANGED <<posts, nextPostId>>
                    ELSE /\ posts' = (nextPostId :> row) @@ posts
                         /\ nextPostId' = nextPostId + 1
                         /\ resp' = Response("201_CREATED",
                                             {[id |-> nextPostId, user |-> row.user,
                                               content |-> row.content]})
        /\ getRan' = FALSE
        /\ UNCHANGED <<users, userReadOnly>>

PostRetrieve_consuming ==
    \E caller \in Callers, pk \in PostIds :
        /\ req' = Request("retrieve", caller, pk, NoBody)
        /\ IF ~check_permissions(PostViewSet_permission_classes, caller)
           THEN /\ resp' = NotAuthenticated
                /\ UNCHANGED posts
           ELSE IF pk \notin get_queryset(caller)
           THEN /\ resp' = NotFound
                /\ UNCHANGED posts
           ELSE /\ resp' = Response("200_OK", {PostSerializer_data(pk)})
                /\ posts' = [p \in DOMAIN posts \ {pk} |-> posts[p]]
        /\ getRan' = FALSE
        /\ UNCHANGED <<users, nextPostId, userReadOnly>>

PostRetrieve ==
    \E caller \in Callers, pk \in PostIds :
        /\ req' = Request("retrieve", caller, pk, NoBody)
        /\ resp' = IF ~check_permissions(PostViewSet_permission_classes, caller)
                   THEN NotAuthenticated
                   ELSE IF pk \notin get_queryset(caller)
                   THEN NotFound
                   ELSE Response("200_OK", {PostSerializer_data(pk)})
        /\ getRan' = FALSE
        /\ UNCHANGED <<users, posts, nextPostId, userReadOnly>>

\* update (PUT, partial = FALSE) and partial_update (PATCH, partial = TRUE)
PostUpdate ==
    \E caller \in Callers, pk \in PostIds, owner \in BodyOwners, partial \in BOOLEAN :
        /\ req' = Request(IF partial THEN "partial_update" ELSE "update", caller, pk, [user |-> owner])
        /\ IF ~check_permissions(PostViewSet_permission_classes, caller)
           THEN /\ resp' = NotAuthenticated
                /\ UNCHANGED posts
           ELSE IF pk \notin get_queryset(caller)
           THEN /\ resp' = NotFound
                /\ UNCHANGED posts
           ELSE \E content \in BodyContents :
                LET body == [user |-> owner, content |-> content]
                    row == PostSerializer_save(posts[pk],
                                               PostSerializer_validated_data(body),
                                               perform_update)
                IN  IF ~PostSerializer_is_valid(body, partial)
                    THEN /\ resp' = BadRequest
                         /\ UNCHANGED posts
                    ELSE /\ posts' = [posts EXCEPT ![pk] = row]
                         /\ resp' = Response("200_OK",
                                             {[id |-> pk, user |-> row.user,
                                               content |-> row.content]})
        /\ getRan' = FALSE
        /\ UNCHANGED <<users, nextPostId, userReadOnly>>

PostDestroy ==
    \E caller \in Callers, pk \in PostIds :
        /\ req' = Request("destroy", caller, pk, NoBody)
        /\ IF ~check_permissions(PostViewSet_permission_classes, caller)
           THEN /\ resp' = NotAuthenticated
                /\ UNCHANGED posts
           ELSE IF pk \notin get_queryset(caller)
           THEN /\ resp' = NotFound
                /\ UNCHANGED posts
           ELSE /\ posts' = [p \in DOMAIN posts \ {pk} |-> posts[p]]
                /\ resp' = Response("204_NO_CONTENT", {})
        /\ getRan' = FALSE
        /\ UNCHANGED <<users, nextPostId, userReadOnly>>

\* ----------------------------------------------------------- RegisterView
\* The profile fields a registration body carries, and the bodies tried.
ProfileFields ==
    {[email |-> "e1", first_name |-> "n1", last_name |-> "n2"],
     [email |-> "e2", first_name |-> "n2", last_name |-> "n1"]}

RegBodies ==
    {[username |-> n, email |-> f.email, first_name |-> f.first_name,
      last_name |-> f.last_name] :
        n \in Usernames \cup {""}, f \in ProfileFields}

\* RegisterSerializer over django.contrib.auth.models.User: the username is
\* required and unique.
RegisterSerializer_is_valid(body) ==
    /\ body.username # ""
    /\ \A u \in DOMAIN users : users[u].username # body.username

RegisterSerializer_save(body) ==
    (Cardinality(DOMAIN users) + 1 :>
        [username |-> body.username, email |-> body.email,
         first_name |-> body.first_name, last_name |-> body.last_name]) @@ users

RegisterSerializer_data(body) ==
    [username |-> body.username, email |-> body.email,
     first_name |-> body.first_name, last_name |-> body.last_name]

CreateAPIView_create_unchecked(body) ==
    [users |-> RegisterSerializer_save(body),
     resp |-> Response("201_CREATED", {RegisterSerializer_data(body)})]

\* CreateAPIView.create: is_valid(raise_exception=True), perform_create, 201.
CreateAPIView_create(body) ==
    IF ~RegisterSerializer_is_valid(body)
    THEN [users |-> users, resp |-> BadRequest]
    ELSE [users |-> RegisterSerializer_save(body),
          resp |-> Response("201_CREATED", {RegisterSerializer_data(body)})]

Register ==
    \E caller \in Callers, body \in RegBodies :
        /\ req' = Request("register", caller, NoId, body)
        /\ IF ~check_permissions(RegisterView_permission_classes, caller)
           THEN /\ resp' = NotAuthenticated
                /\ UNCHANGED users
           ELSE LET out == CreateAPIView_create(body)
                IN  /\ users' = out.users
                    /\ resp' = out.resp
        /\ getRan' = FALSE
        /\ UNCHANGED <<posts, nextPostId, userReadOnly>>

\* -------------------------------------------------------- UserProfileView
ServerError == Response("500_INTERNAL_SERVER_ERROR", {})

UserProfileView_get_swapped(user) ==
    IF user = Anon
    THEN ServerError
    ELSE Response("200_OK",
                  {[id |-> user,
                    username |-> users[user].username,
                    email |-> users[user].email,
                    first_name |-> users[user].last_name,
                    last_name |-> users[user].first_name]})

\* UserProfileView.get: `user` is request.user, loaded from the User table.
\* AnonymousUser has no email attribute: reading it raises AttributeError.
UserProfileView_get(user) ==
    IF user = Anon
    THEN ServerError
    ELSE Response("200_OK",
                  {[id |-> user,
                    username |-> users[user].username,
                    email |-> users[user].email,
                    first_name |-> users[user].first_name,
                    last_name |-> users[user].last_name]})

\* The request may carry a query parameter naming a user; get never reads it.
Profile ==
    \E caller \in Callers, q \in UserIds \cup {NoId} :
        /\ req' = Request("profile", caller, q, NoBody)
        /\ IF ~check_permissions(UserProfileView_permission_classes, caller)
           THEN /\ resp' = NotAuthenticated
                /\ getRan' = FALSE
           ELSE /\ resp' = UserProfileView_get(caller)
                /\ getRan' = TRUE
        /\ UNCHANGED <<users, posts, nextPostId, userReadOnly>>

\* ---------------------------------------------------------- specification
EmptyTable == [x \in {} |-> None]

Init ==
    /\ users = EmptyTable
    /\ posts = EmptyTable
    /\ nextPostId = 1
    /\ userReadOnly \in BOOLEAN
    /\ req = Request(None, Anon, NoId, NoBody)
    /\ resp = Response(None, {})
    /\ getRan = FALSE

Next ==
    \/ PostList
    \/ PostCreate
    \/ PostRetrieve
    \/ PostUpdate
    \/ PostDestroy
    \/ Register
    \/ Profile

Spec == Init /\ [][Next]_vars

\* ----------------------------------------------------------------- claims
PostOps == {"list", "create", "retrieve", "update", "partial_update", "destroy"}
DetailOps == {"retrieve", "update", "partial_update", "destroy"}
ReadOps == {"list", "retrieve", "profile"}
WriteOps == {"create", "update", "partial_update", "destroy", "register"}

\* C1: every post operation sent without credentials is answered with the
\* authorization error, returns nothing, and leaves the Post table as it was.
C1_UnauthenticatedPostRequestRejected ==
    [][(req'.op \in PostOps /\ req'.caller = Anon)
          => /\ resp'.status = "NotAuthenticated"
             /\ resp'.data = {}
             /\ posts' = posts]_vars

C1_Witness ==
    /\ req.op \in {"create", "update", "partial_update", "destroy"}
    /\ req.caller = Anon
    /\ resp.status = "NotAuthenticated"
    /\ posts # EmptyTable

\* C2: the result of a list request by an authenticated user U is exactly the
\* stored posts whose owner is U: none of another user's, none of U's missing.
C2_ListIsExactlyOwnPosts ==
    (req.op = "list" /\ req.caller # Anon)
        => /\ resp.status = "200_OK"
           /\ \A d \in resp.data : d.user = req.caller
           /\ resp.data = {[id |-> p, user |-> posts[p].user, content |-> posts[p].content] :
                              p \in {q \in DOMAIN posts : posts[q].user = req.caller}}

C2_Witness ==
    /\ req.op = "list"
    /\ req.caller # Anon
    /\ resp.data # {}
    /\ \E p \in DOMAIN posts : posts[p].user # req.caller

\* C3: a step stores a new post only for a create request of an authenticated
\* user, and the new post's owner is that user whatever "user" the body carries;
\* a successful create stores exactly one new post, the one it returns.
C3_CreatedPostOwnedByRequester ==
    [][/\ \A p \in DOMAIN posts' \ DOMAIN posts :
              /\ req'.op = "create"
              /\ req'.caller # Anon
              /\ posts'[p].user = req'.caller
       /\ (req'.op = "create" /\ resp'.status = "201_CREATED")
              => /\ Cardinality(DOMAIN posts' \ DOMAIN posts) = 1
                 /\ \A d \in resp'.data :
                        /\ d.id \in DOMAIN posts' \ DOMAIN posts
                        /\ d.user = req'.caller]_vars

C3_Witness ==
    /\ req.op = "create"
    /\ resp.status = "201_CREATED"
    /\ req.body.user \notin {NoId, req.caller}
    /\ \A d \in resp.data : d.id \in DOMAIN posts /\ posts[d.id].user = req.caller

\* C4: a retrieve, update, partial update or delete by an authenticated user
\* that addresses another user's post answers not-found with no data and
\* leaves the post as it was; a post changes or disappears only through an
\* update, partial update or delete of that post by its owner.
C4_ForeignPostNotFound ==
    [][/\ (/\ req'.op \in DetailOps
           /\ req'.caller # Anon
           /\ req'.pk \in DOMAIN posts
           /\ posts[req'.pk].user # req'.caller)
              => /\ resp'.status = "404_NOT_FOUND"
                 /\ resp'.data = {}
                 /\ posts' = posts
       /\ posts' # posts
              => \A p \in DOMAIN posts :
                     (p \notin DOMAIN posts' \/ posts'[p] # posts[p])
                         => /\ req'.op \in {"update", "partial_update", "destroy"}
                            /\ req'.pk = p
                            /\ req'.caller = posts[p].user]_vars

C4_Witness ==
    /\ req.op \in {"update", "partial_update", "destroy"}
    /\ req.caller # Anon
    /\ req.pk \in DOMAIN posts
    /\ posts[req.pk].user # req.caller
    /\ resp.status = "404_NOT_FOUND"

C6_RegistrationOpenToAnonymous ==
    [][req'.op = "register"
          => /\ resp'.status # "NotAuthenticated"
             /\ (/\ req'.caller = Anon
                 /\ req'.body.username # ""
                 /\ \A u \in DOMAIN users : users[u].username # req'.body.username)
                    => /\ resp'.status = "201_CREATED"
                       /\ \E u \in DOMAIN users' \ DOMAIN users :
                              users'[u].username = req'.body.username]_vars

C6_Witness ==
    /\ req.op = "register"
    /\ req.caller = Anon
    /\ resp.status = "201_CREATED"
    /\ \E u \in DOMAIN users : users[u].username = req.body.username

\* C7: a profile request by an authenticated user U returns one object with
\* exactly the fields id, username, email, first_name and last_name, each the
\* value stored for U, whatever user the request's parameter names.
C7_ProfileIsCallersStoredFields ==
    (req.op = "profile" /\ req.caller # Anon)
        => /\ resp.status = "200_OK"
           /\ Cardinality(resp.data) = 1
           /\ \A d \in resp.data :
                  /\ DOMAIN d = {"id", "username", "email", "first_name", "last_name"}
                  /\ d.id = req.caller
                  /\ d.username = users[req.caller].username
                  /\ d.email = users[req.caller].email
                  /\ d.first_name = users[req.caller].first_name
                  /\ d.last_name = users[req.caller].last_name

C7_Witness ==
    /\ req.op = "profile"
    /\ req.caller # Anon
    /\ req.pk \in DOMAIN users \ {req.caller}
    /\ users[req.pk] # users[req.caller]
    /\ resp.status = "200_OK"

\* C8: a profile request without credentials is answered with the
\* authorization error, the get handler does not run, and no content is returned.
C8_AnonymousProfileRejected ==
    (req.op = "profile" /\ req.caller = Anon)
        => /\ resp.status = "NotAuthenticated"
           /\ resp.data = {}
           /\ ~getRan

C8_Witness ==
    /\ req.op = "profile"
    /\ req.caller = Anon
    /\ resp.status = "NotAuthenticated"
    /\ users # EmptyTable

\* C9: over any step, every post that stays stored keeps its owner.  The
\* property is decided by PostSerializer alone: it holds when the serializer
\* declares "user" read-only (SpecOwnerReadOnly) and fails when "user" is a
\* writable field (SpecOwnerWritable), where the owner's own update may carry
\* another user's id.
C9_OwnerNeverChanges ==
    [][\A p \in DOMAIN posts \cap DOMAIN posts' : posts'[p].user = posts[p].user]_vars

InitOwnerReadOnly == Init /\ userReadOnly

InitOwnerWritable == Init /\ ~userReadOnly

SpecOwnerReadOnly == InitOwnerReadOnly /\ [][Next]_vars

SpecOwnerWritable == InitOwnerWritable /\ [][Next]_vars

\* C10: list, retrieve and profile requests, answered or rejected, leave the
\* User and Post tables as they were; a step that changes either table is a
\* create, update, partial update, delete or registration.
C10_ReadsLeaveStoreUnchanged ==
    [][/\ req'.op \in ReadOps
              => (users' = users /\ posts' = posts /\ nextPostId' = nextPostId)
       /\ (users' # users \/ posts' # posts) => req'.op \in WriteOps
       /\ users' # users => req'.op = "register"
       /\ posts' # posts => req'.op \in PostOps \ ReadOps]_vars

C10_Witness ==
    /\ req.op = "retrieve"
    /\ resp.status = "200_OK"
    /\ \A d \in resp.data : d.id \in DOMAIN posts /\ posts[d.id].user = req.caller

====
